---- MODULE Spec2Model ----
(***************************************************************************)
(* Model of radon/visitors.py: the Class record's derived complexity, the  *)
(* LCOM visitor, the cyclomatic-complexity visitor and the CBO visitor.    *)
(* Each analyser has its own specification over its own variables; the     *)
(* variables of the other analysers stay at their idle values.             *)
(***************************************************************************)
EXTENDS Integers, Sequences, FiniteSets, TLC

VARIABLES
    \* Class.complexity (visitors.py 97-105)
    cl_pc, cl_self, cl_result, cl_divisors,
    \* LCOMVisitor (visitors.py 476-543)
    lc_pc, lc_body, methods, method_fields, class_lcoms,
    \* ComplexityVisitor (visitors.py 146-337)
    unit, off, no_assert, visitor,
    \* CBOVisitor (visitors.py 550-779)
    cbo_pc, classes, class_couplings, current_class, imported_names,
    self_attributes, class_stack, cbo_count, decl,
    \* HalsteadVisitor (visitors.py 340-461)
    h_unit, h_visitor

cl_vars == <<cl_pc, cl_self, cl_result, cl_divisors>>
lc_vars == <<lc_pc, lc_body, methods, method_fields, class_lcoms>>
cc_vars == <<unit, off, no_assert, visitor>>
cbo_vars == <<cbo_pc, classes, class_couplings, current_class, imported_names,
              self_attributes, class_stack, cbo_count, decl>>
h_vars == <<h_unit, h_visitor>>
vars == <<cl_vars, lc_vars, cc_vars, cbo_vars, h_vars>>

\* ---------------------------------------------------------------- helpers

Max2(a, b) == IF a >= b THEN a ELSE b

\* ------------------------------------------------------------------ bounds

\* Largest real_complexity and largest method count of a Class record.
MaxReal == 12
MaxMethodCount == 5
\* Largest number of statements in a class body seen by LCOMVisitor.
MaxBodyItems == 3
\* Largest size of an analysed unit: its statements plus the clauses
\* (operands, handlers, filters, cases, else and finally clauses) added to them.
MaxSize == 3
\* Largest number of class definitions and of statements in class bodies
\* that one CBO traversal visits.
MaxClassDefs == 2
MaxStmts == 2
\* Largest number of statements of a unit given to the Halstead visitor.
MaxHalsteadNodes == 4

\* ======================================================================
\* Class.complexity
\* ======================================================================

\* Python's int(a / float(b)) for b > 0: the quotient truncated toward zero.
IntOfQuotient(a, b) == IF a >= 0 THEN a \div b ELSE -((-a) \div b)

\* Python's bool used as an integer.
BoolInt(b) == IF b THEN 1 ELSE 0

\* A Class record: only real_complexity and the methods list matter here.
ClassRecords ==
    { [real_complexity |-> r, methods |-> [i \in 1..m |-> i]] :
        r \in 0..MaxReal, m \in 0..MaxMethodCount }

\* A slip: the "+ 1" applied whenever the class has methods.
Class_complexity_always_plus_one(self) ==
    IF Len(self.methods) = 0
    THEN [value |-> self.real_complexity, divisors |-> {}]
    ELSE [value |-> IntOfQuotient(self.real_complexity, Len(self.methods)) + 1,
          divisors |-> {Len(self.methods)}]

\* The property Class.complexity: the value returned and the divisors used.
Class_complexity(self) ==
    IF Len(self.methods) = 0
    THEN [value |-> self.real_complexity, divisors |-> {}]
    ELSE LET n == Len(self.methods)
         IN  [value |-> IntOfQuotient(self.real_complexity, n) + BoolInt(n > 1),
              divisors |-> {n}]

ClInit ==
    /\ cl_pc = "built"
    /\ cl_self \in ClassRecords
    /\ cl_result = 0
    /\ cl_divisors = {}

ClIdle ==
    /\ cl_pc = "idle"
    /\ cl_self = [real_complexity |-> 0, methods |-> <<>>]
    /\ cl_result = 0
    /\ cl_divisors = {}

\* Reading cls.complexity on the record.
ReadComplexity ==
    /\ cl_pc = "built"
    /\ cl_pc' = "read"
    /\ cl_result' = Class_complexity(cl_self).value
    /\ cl_divisors' = Class_complexity(cl_self).divisors
    /\ UNCHANGED cl_self

\* ======================================================================
\* LCOMVisitor
\* ======================================================================

MethodNames == <<"f", "g", "h">>
\* Attribute expressions a method body may contain: base identifier, attribute.
Accesses == { <<"self", "a">>, <<"self", "b">>, <<"other", "a">> }

\* MethodFieldVisitor: the attributes read through the identifier self.
fields_accessed(accesses) == { x[2] : x \in { y \in accesses : y[1] = "self" } }

\* Positions of the FunctionDef statements of a class body.
DefPositions(body) == { i \in 1..Len(body) : body[i].kind = "FunctionDef" }

\* Number of distinct method names used so far; names are introduced in the
\* order of MethodNames (a name matters only through equality).
UsedNames(body) == Cardinality({ body[i].name : i \in DefPositions(body) })

RECURSIVE lcom_pairs_skip_empty(_, _, _, _, _, _)
\* A slip: a pair with a field-less method is not counted at all.
lcom_pairs_skip_empty(mf, ms, i, j, P, Q) ==
    IF i > Len(ms) THEN <<P, Q>>
    ELSE IF j > Len(ms) THEN lcom_pairs_skip_empty(mf, ms, i + 1, i + 2, P, Q)
    ELSE LET fields_i == mf[ms[i]]
             fields_j == mf[ms[j]]
         IN  IF fields_i # {} /\ fields_j # {}
             THEN IF fields_i \cap fields_j = {}
                  THEN lcom_pairs_skip_empty(mf, ms, i, j + 1, P + 1, Q)
                  ELSE lcom_pairs_skip_empty(mf, ms, i, j + 1, P, Q + 1)
             ELSE lcom_pairs_skip_empty(mf, ms, i, j + 1, P, Q)

RECURSIVE lcom_pairs(_, _, _, _, _, _)
\* The two nested loops of calculate_lcom, from (i, j) on: <<P, Q>>.
lcom_pairs(mf, ms, i, j, P, Q) ==
    IF i > Len(ms) THEN <<P, Q>>
    ELSE IF j > Len(ms) THEN lcom_pairs(mf, ms, i + 1, i + 2, P, Q)
    ELSE LET fields_i == mf[ms[i]]
             fields_j == mf[ms[j]]
         IN  IF fields_i # {} /\ fields_j # {}
             THEN IF fields_i \cap fields_j = {}
                  THEN lcom_pairs(mf, ms, i, j + 1, P + 1, Q)
                  ELSE lcom_pairs(mf, ms, i, j + 1, P, Q + 1)
             ELSE lcom_pairs(mf, ms, i, j + 1, P + 1, Q)

calculate_lcom(mf, ms) ==
    IF Len(ms) < 2 THEN 0
    ELSE LET pq == lcom_pairs(mf, ms, 1, 2, 0, 0)
         IN  IF pq[1] > pq[2] THEN pq[1] - pq[2] ELSE 0

LcInit ==
    /\ lc_pc = "body"
    /\ lc_body = <<>>
    /\ methods = <<>>
    /\ method_fields = <<>>
    /\ class_lcoms = <<>>

LcIdle ==
    /\ lc_pc = "idle"
    /\ lc_body = <<>>
    /\ methods = <<>>
    /\ method_fields = <<>>
    /\ class_lcoms = <<>>

\* One turn of the loop of visit_ClassDef on a FunctionDef statement.
VisitMethod ==
    /\ lc_pc = "body"
    /\ Len(lc_body) < MaxBodyItems
    /\ \E k \in 1..Len(MethodNames), acc \in SUBSET Accesses :
         /\ k <= UsedNames(lc_body) + 1
         /\ LET method_name == MethodNames[k]
            IN  /\ lc_body' = Append(lc_body, [kind |-> "FunctionDef",
                                               name |-> method_name,
                                               accesses |-> acc])
                /\ methods' = Append(methods, method_name)
                /\ method_fields' =
                     [n \in DOMAIN method_fields \cup {method_name} |->
                        IF n = method_name THEN fields_accessed(acc)
                        ELSE method_fields[n]]
    /\ UNCHANGED <<lc_pc, class_lcoms>>

\* One turn of the loop on any other statement (assignment, async def, ...).
VisitOtherItem ==
    /\ lc_pc = "body"
    /\ Len(lc_body) < MaxBodyItems
    /\ lc_body' = Append(lc_body, [kind |-> "Other", name |-> "", accesses |-> {}])
    /\ UNCHANGED <<lc_pc, methods, method_fields, class_lcoms>>

\* The end of visit_ClassDef: calculate_lcom and the store into class_lcoms.
StoreLcom ==
    /\ lc_pc = "body"
    /\ lc_pc' = "done"
    /\ class_lcoms' = [c \in {"MyClass"} |-> calculate_lcom(method_fields, methods)]
    /\ UNCHANGED <<lc_body, methods, method_fields>>

\* ======================================================================
\* ComplexityVisitor
\* ======================================================================

\* The analysed unit is a sequence of statements in source order, one per
\* line: statement i stands on line i and lies in the body of statement
\* parent (0: the module).  A compound statement without statements below
\* it has its one-line body (pass) on its own line.  Fields of a statement:
\*   n          BoolOp: operands; Try: handlers; comprehension: filters;
\*              Match: cases; Assert: boolean operands of its condition
\*   orelse     Loop, Try: an else clause is present
\*   finalbody  Try: a finally clause is present
\*   wildcard   Match: one case is the wildcard
\* If stands for If and IfExp, which generic_visit treats alike; Loop for
\* For, While and AsyncFor; FunctionDef for the async form too; Expr for any
\* statement without decision points.

\* float("-inf"), the initial _max_line: below every line number.
NegInf == -1

CompoundKinds == {"If", "Loop", "Try", "Match", "FunctionDef", "ClassDef"}
DefinitionKinds == {"FunctionDef", "ClassDef"}

Node(kind, parent, n, orelse, finalbody, wildcard) ==
    [kind |-> kind, parent |-> parent, n |-> n, orelse |-> orelse,
     finalbody |-> finalbody, wildcard |-> wildcard]

\* The statements that can be written below statement p, in their smallest form.
NewNodes(p) ==
    { Node(k, p, 0, FALSE, FALSE, FALSE) :
        k \in {"Expr", "If", "Loop", "FunctionDef", "ClassDef",
               "comprehension", "Assert"} }
    \cup { Node("BoolOp", p, 2, FALSE, FALSE, FALSE),
           Node("Try", p, 1, FALSE, FALSE, FALSE),
           Node("Match", p, 1, FALSE, FALSE, FALSE) }

\* The statements of the body of p, in source order.
ChildSeq(t, p) == SelectSeq([i \in 1..Len(t) |-> i], LAMBDA i : t[i].parent = p)

RECURSIVE Ancestors(_, _)
\* The statements enclosing statement i, the module (0) excluded.
Ancestors(t, i) ==
    IF i = 0 \/ t[i].parent = 0 THEN {}
    ELSE {t[i].parent} \cup Ancestors(t, t[i].parent)

\* Where the next statement can be written: in the body of the last
\* statement, if compound, or of one of the statements enclosing it.
OpenBodies(t) ==
    IF t = <<>> THEN {0}
    ELSE {0} \cup Ancestors(t, Len(t))
             \cup (IF t[Len(t)].kind \in CompoundKinds THEN {Len(t)} ELSE {})

\* ComplexityVisitor.__init__
ComplexityVisitor(to_method, classname, offset, noassert) ==
    [off |-> offset,
     complexity |-> IF offset THEN 1 ELSE 0,
     functions |-> <<>>,
     classes |-> <<>>,
     to_method |-> to_method,
     classname |-> classname,
     no_assert |-> noassert,
     max_line |-> NegInf]

RECURSIVE SumField(_, _)
\* sum(map(attrgetter(field), records))
SumField(records, field) ==
    IF records = <<>> THEN 0
    ELSE Head(records)[field] + SumField(Tail(records), field)

\* A slip: the plain sum, the functions' baselines left in.
functions_complexity_with_baselines(v) == SumField(v.functions, "complexity")

functions_complexity(v) == SumField(v.functions, "complexity") - Len(v.functions)

classes_complexity(v) == SumField(v.classes, "real_complexity") - Len(v.classes)

total_complexity(v) ==
    v.complexity + functions_complexity(v) + classes_complexity(v) + BoolInt(~v.off)

\* A slip: a match with a wildcard case counted as exhaustive, adding nothing.
decision_points_wildcard_zero(node) ==
    CASE node.kind = "Try" -> node.n + BoolInt(node.orelse)
      [] node.kind = "BoolOp" -> node.n - 1
      [] node.kind = "If" -> 1
      [] node.kind = "Match" -> IF node.wildcard THEN 0 ELSE node.n
      [] node.kind = "Loop" -> BoolInt(node.orelse) + 1
      [] node.kind = "comprehension" -> node.n + 1
      [] OTHER -> 0

\* What generic_visit adds to self.complexity for the node itself.
decision_points(node) ==
    CASE node.kind = "Try" -> node.n + BoolInt(node.orelse)
      [] node.kind = "BoolOp" -> node.n - 1
      [] node.kind = "If" -> 1
      [] node.kind = "Match" -> Max2(0, node.n - BoolInt(node.wildcard))
      [] node.kind = "Loop" -> BoolInt(node.orelse) + 1
      [] node.kind = "comprehension" -> node.n + 1
      [] OTHER -> 0

\* A slip: the function's count starting from the visitor's own baseline.
function_body_baseline_of_visitor(v) == IF v.off THEN 1 ELSE 0

\* body_complexity = 1 in visit_FunctionDef
function_body_baseline(v) == 1

\* The behaviour before issue 68: the closures' complexity added as well.
function_body_increment_with_closures(sub) ==
    sub.complexity + functions_complexity(sub)

\* body_complexity += visitor.complexity in visit_FunctionDef
function_body_increment(sub) == sub.complexity

RECURSIVE visit(_, _, _)
RECURSIVE visit_all(_, _, _)
RECURSIVE function_body(_, _, _, _)
RECURSIVE class_body(_, _, _, _, _)

\* for child in node.body of visit_FunctionDef, over the statements cs.
function_body(t, noassert, cs, acc) ==
    IF cs = <<>> THEN acc
    ELSE LET sub == visit(t, ComplexityVisitor(FALSE, 0, FALSE, noassert), Head(cs))
         IN  function_body(t, noassert, Tail(cs),
                 [closures |-> acc.closures \o sub.functions,
                  body_complexity |-> acc.body_complexity + function_body_increment(sub),
                  max_line |-> sub.max_line])

\* visit_FunctionDef (and visit_AsyncFunctionDef); classname 0 is None.
visit_FunctionDef(t, v, n) ==
    LET acc == function_body(t, v.no_assert, ChildSeq(t, n),
                   [closures |-> <<>>,
                    body_complexity |-> function_body_baseline(v),
                    max_line |-> n])
        func == [name |-> n,
                 lineno |-> n,
                 endline |-> Max2(n, acc.max_line),
                 is_method |-> v.to_method,
                 classname |-> v.classname,
                 closures |-> acc.closures,
                 complexity |-> acc.body_complexity]
    IN  [v EXCEPT !.functions = Append(@, func)]

\* for child in node.body of visit_ClassDef, over the statements cs.
class_body(t, noassert, classname, cs, acc) ==
    IF cs = <<>> THEN acc
    ELSE LET sub == visit(t, ComplexityVisitor(TRUE, classname, FALSE, noassert), Head(cs))
         IN  class_body(t, noassert, classname, Tail(cs),
                 [methods |-> acc.methods \o sub.functions,
                  body_complexity |-> acc.body_complexity + sub.complexity
                                        + functions_complexity(sub) + Len(sub.functions),
                  visitors_max_lines |-> acc.visitors_max_lines \cup {sub.max_line},
                  inner_classes |-> acc.inner_classes \o sub.classes])

SetMax(S) == CHOOSE x \in S : \A y \in S : y <= x

visit_ClassDef(t, v, n) ==
    LET acc == class_body(t, v.no_assert, n, ChildSeq(t, n),
                   [methods |-> <<>>,
                    body_complexity |-> 1,
                    visitors_max_lines |-> {n},
                    inner_classes |-> <<>>])
        cls == [name |-> n,
                lineno |-> n,
                endline |-> SetMax(acc.visitors_max_lines
                              \cup { acc.methods[i].endline : i \in DOMAIN acc.methods }),
                methods |-> acc.methods,
                inner_classes |-> acc.inner_classes,
                real_complexity |-> acc.body_complexity]
    IN  [v EXCEPT !.classes = Append(@, cls)]

\* A slip: the assertion counted whatever no_assert says.
visit_Assert_always_counted(v) == [v EXCEPT !.complexity = @ + 1]

\* visit_Assert: the condition is not descended into.
visit_Assert(v) == [v EXCEPT !.complexity = @ + BoolInt(~v.no_assert)]

\* generic_visit: max_line, the node's own decision points, then the children.
generic_visit(t, v, n) ==
    visit_all(t,
              [v EXCEPT !.max_line = Max2(@, n),
                        !.complexity = @ + decision_points(t[n])],
              ChildSeq(t, n))

visit_all(t, v, cs) ==
    IF cs = <<>> THEN v ELSE visit_all(t, visit(t, v, Head(cs)), Tail(cs))

\* NodeVisitor.visit: dispatch on the node's kind.
visit(t, v, n) ==
    CASE t[n].kind = "FunctionDef" -> visit_FunctionDef(t, v, n)
      [] t[n].kind = "ClassDef" -> visit_ClassDef(t, v, n)
      [] t[n].kind = "Assert" -> visit_Assert(v)
      [] OTHER -> generic_visit(t, v, n)

\* CodeVisitor.from_ast on the module: the module node has no line and no
\* decision points of its own.
from_ast(t, offset, noassert) ==
    visit_all(t, ComplexityVisitor(FALSE, 0, offset, noassert), ChildSeq(t, 0))

\* Clauses added to a statement beyond its smallest form.
ExtrasOf(node) ==
    CASE node.kind = "BoolOp" -> node.n - 2
      [] node.kind = "Try" -> node.n + BoolInt(node.orelse) + BoolInt(node.finalbody) - 1
      [] node.kind = "Match" -> node.n - 1
      [] node.kind = "Loop" -> BoolInt(node.orelse)
      [] OTHER -> node.n

RECURSIVE Extras(_)
Extras(t) == IF t = <<>> THEN 0 ELSE ExtrasOf(Head(t)) + Extras(Tail(t))

Size(t) == Len(t) + Extras(t)

CcInit ==
    /\ unit = <<>>
    /\ off \in BOOLEAN
    /\ no_assert \in BOOLEAN
    /\ visitor = from_ast(<<>>, off, no_assert)

CcIdle ==
    /\ unit = <<>>
    /\ off = TRUE
    /\ no_assert = FALSE
    /\ visitor = from_ast(<<>>, TRUE, FALSE)

\* The analysis of the unit changed into t.
Analyse(t) ==
    /\ unit' = t
    /\ visitor' = from_ast(t, off, no_assert)
    /\ UNCHANGED <<off, no_assert>>

\* One more statement at the end of an open body.
AddStatement ==
    /\ Size(unit) < MaxSize
    /\ \E p \in OpenBodies(unit) : \E node \in NewNodes(p) :
         Analyse(Append(unit, node))

\* One more boolean operand, handler, comprehension filter, plain match case,
\* or operand in an assertion's condition.
AddClause ==
    /\ Size(unit) < MaxSize
    /\ \E i \in 1..Len(unit) :
         /\ unit[i].kind \in {"BoolOp", "Try", "comprehension", "Match", "Assert"}
         /\ Analyse([unit EXCEPT ![i].n = @ + 1])

\* The wildcard case added to a match that has none.
AddWildcardCase ==
    /\ Size(unit) < MaxSize
    /\ \E i \in 1..Len(unit) :
         /\ unit[i].kind = "Match"
         /\ ~unit[i].wildcard
         /\ Analyse([unit EXCEPT ![i].n = @ + 1, ![i].wildcard = TRUE])

\* An else clause added to a loop, or to a try that has a handler.
AddElse ==
    /\ Size(unit) < MaxSize
    /\ \E i \in 1..Len(unit) :
         /\ \/ unit[i].kind = "Loop"
            \/ unit[i].kind = "Try" /\ unit[i].n > 0
         /\ ~unit[i].orelse
         /\ Analyse([unit EXCEPT ![i].orelse = TRUE])

\* A finally clause added to a try.
AddFinally ==
    /\ Size(unit) < MaxSize
    /\ \E i \in 1..Len(unit) :
         /\ unit[i].kind = "Try"
         /\ ~unit[i].finalbody
         /\ Analyse([unit EXCEPT ![i].finalbody = TRUE])

\* ======================================================================
\* CBOVisitor
\* ======================================================================

\* A name is the sequence of its dot-separated components, so that
\* name.split(".") is the name itself and f"{value}.{attr}" appends attr.
\* The empty sequence is None.  The traversal is modelled statement by
\* statement: class_stack holds the classes whose visit_ClassDef is running.

None == "None"
NoName == <<>>

ClassIds == {"A", "B", "C"}
\* Some of the names get_standard_lib_classes returns.
standard_lib_classes == {"int"}
Attrs == {"b"}

\* Expressions as written in the source: a name or an attribute chain.
RefPaths ==
    { <<"A">>, <<"B">>, <<"int">>, <<"m", "A">>, <<"A", "B">>, <<"self", "b", "x">> }
AnnotationPaths == { <<"A">>, <<"int">>, <<"A", "B">> }

\* import statements: "from A import B".
Imports == { [asname |-> "B", full_name |-> <<"A", "B">>] }

\* The right-hand sides of assignments: a call, a name or attribute chain,
\* or another expression (a constant).
Values ==
    { [form |-> f, path |-> p] : f \in {"Call", "Ref"}, p \in RefPaths }
    \cup { [form |-> "Other", path |-> NoName] }

\* get_full_name on a name or attribute chain (of a call: on its callee).
get_full_name(imports, path) ==
    IF path = NoName THEN NoName
    ELSE (IF Head(path) \in DOMAIN imports THEN imports[Head(path)] ELSE <<Head(path)>>)
             \o Tail(path)

\* The test applied to one component, or to an undotted name.
is_class_part(part, cur, cls) ==
    part # cur /\ (part \in standard_lib_classes \/ part \in cls)

\* A slip: the class's own name not excluded.
is_class_name_with_self(name, cur, cls) ==
    IF name = NoName THEN FALSE
    ELSE \E i \in 1..Len(name) : name[i] \in standard_lib_classes \/ name[i] \in cls

\* is_class_name: some component of a dotted name passes the test, or the
\* undotted name does (a dotted name as a whole is no class name).
is_class_name(name, cur, cls) ==
    IF name = NoName THEN FALSE
    ELSE IF Len(name) > 1 /\ \E i \in 1..Len(name) : is_class_part(name[i], cur, cls)
         THEN TRUE
         ELSE Len(name) = 1 /\ is_class_part(name[1], cur, cls)

\* get_class_name: the first component of a dotted name that is a class name.
get_class_name(coupling, cur, cls) ==
    IF Len(coupling) > 1 /\ \E i \in 1..Len(coupling) : is_class_name(<<coupling[i]>>, cur, cls)
    THEN LET first == CHOOSE i \in 1..Len(coupling) :
                        /\ is_class_name(<<coupling[i]>>, cur, cls)
                        /\ \A j \in 1..(i - 1) : ~is_class_name(<<coupling[j]>>, cur, cls)
         IN  <<coupling[first]>>
    ELSE coupling

\* The part of the visitor the statement handlers change.
CboState == [class_couplings |-> class_couplings, self_attributes |-> self_attributes]

\* A slip: the couplings of the referenced class are taken over as well.
add_coupling_transitive(st, cur, class_name) ==
    [st EXCEPT !.class_couplings[cur] =
        @ \cup {class_name}
          \cup (IF Len(class_name) = 1 /\ class_name[1] \in DOMAIN st.class_couplings
                THEN st.class_couplings[class_name[1]] ELSE {})]

\* add_coupling
add_coupling(st, cur, class_name) ==
    [st EXCEPT !.class_couplings[cur] = @ \cup {class_name}]

\* The test and the add that every rule performs.
couple_if_class(st, cur, name) ==
    IF is_class_name(name, cur, classes) THEN add_coupling(st, cur, name) ELSE st

\* visit_Attribute over the attribute chain path: only the node whose value
\* is self.<attr> looks the attribute up.
visit_Attribute(st, cur, path) ==
    IF Len(path) >= 3 /\ path[1] = "self"
    THEN LET attr_class == IF path[2] \in DOMAIN st.self_attributes[cur]
                           THEN st.self_attributes[cur][path[2]] ELSE NoName
         IN  couple_if_class(st, cur, attr_class)
    ELSE st

\* visit_Call, and generic_visit into the callee.
visit_Call(st, cur, path) ==
    visit_Attribute(couple_if_class(st, cur, get_full_name(imported_names, path)), cur, path)

\* generic_visit into a value.
visit_value(st, cur, value) ==
    CASE value.form = "Call" -> visit_Call(st, cur, value.path)
      [] value.form = "Ref" -> visit_Attribute(st, cur, value.path)
      [] OTHER -> st

\* get_assigned_class
get_assigned_class(value) ==
    IF value.form \in {"Call", "Ref"} THEN get_full_name(imported_names, value.path)
    ELSE NoName

\* self.self_attributes[self.current_class][attr_name] = assigned_class
set_self_attribute(st, cur, attr, name) ==
    [st EXCEPT !.self_attributes[cur] =
        [a \in DOMAIN @ \cup {attr} |-> IF a = attr THEN name ELSE @[a]]]

\* visit_Assign with one target: target is an attribute of self, or "" for
\* any other target.
visit_Assign(st, cur, target, value) ==
    LET assigned_class == get_assigned_class(value)
        st1 == IF target \in Attrs /\ is_class_name(assigned_class, cur, classes)
               THEN add_coupling(set_self_attribute(st, cur, target, assigned_class),
                                 cur, assigned_class)
               ELSE st
    IN  visit_value(st1, cur, value)

\* visit_AnnAssign without a value: target is an attribute of self, "name"
\* for a plain name, or "" for any other target.
visit_AnnAssign(st, cur, target, annotation) ==
    LET assigned_class == get_full_name(imported_names, annotation)
        st1 == IF target \in Attrs
               THEN IF assigned_class # NoName
                    THEN couple_if_class(set_self_attribute(st, cur, target, assigned_class),
                                         cur, assigned_class)
                    ELSE st
               ELSE IF target = "name"
                    THEN couple_if_class(st, cur, assigned_class)
                    ELSE st
    IN  visit_Attribute(st1, cur, annotation)

RECURSIVE couple_all(_, _, _)
\* The loop over the bases of a class or the annotations of a function.
couple_all(st, cur, paths) ==
    IF paths = <<>> THEN st
    ELSE couple_all(couple_if_class(st, cur, get_full_name(imported_names, Head(paths))),
                    cur, Tail(paths))

RECURSIVE visit_exprs(_, _, _)
\* generic_visit into a list of expressions.
visit_exprs(st, cur, paths) ==
    IF paths = <<>> THEN st
    ELSE visit_exprs(visit_Attribute(st, cur, Head(paths)), cur, Tail(paths))

\* What is known of a class body for the scenario claims.
NoDecl == [bases |-> <<>>, stmts |-> {}]

\* The record of a statement of the class body being written (if recorded).
Declare(record, stmt) ==
    decl' = IF record /\ class_stack # <<>>
            THEN [decl EXCEPT ![class_stack[Len(class_stack)]].stmts = @ \cup {stmt}]
            ELSE decl

Counted(kind) == cbo_count' = [cbo_count EXCEPT ![kind] = @ + 1]

\* CBOVisitor.__init__ with the class names AllClassesVisitor collected
\* (visit_Module adds the module's own classes, which are among them).
CboInit ==
    /\ cbo_pc = "visit"
    /\ classes = ClassIds
    /\ class_couplings = <<>>
    /\ current_class = None
    /\ imported_names = <<>>
    /\ self_attributes = <<>>
    /\ class_stack = <<>>
    /\ cbo_count = [defs |-> 0, stmts |-> 0]
    /\ decl = <<>>

CboIdle ==
    /\ cbo_pc = "idle"
    /\ classes = {}
    /\ class_couplings = <<>>
    /\ current_class = None
    /\ imported_names = <<>>
    /\ self_attributes = <<>>
    /\ class_stack = <<>>
    /\ cbo_count = [defs |-> 0, stmts |-> 0]
    /\ decl = <<>>

\* visit_Import / visit_ImportFrom with one alias.  The imports among the
\* module's own statements are visited by visit_Module before any class is,
\* an import inside a class or function body when the traversal reaches it.
CboImport(choices) ==
    /\ cbo_pc = "visit"
    /\ class_stack = <<>> => cbo_count.defs = 0
    /\ \E imp \in choices :
         imported_names' = [a \in DOMAIN imported_names \cup {imp.asname} |->
                              IF a = imp.asname THEN imp.full_name ELSE imported_names[a]]
    /\ UNCHANGED <<cbo_pc, classes, class_couplings, current_class, self_attributes,
                   class_stack, cbo_count, decl>>

\* visit_ClassDef up to the visit of the class body: the class named name
\* with the base expressions bases.
EnterClass(name, bases, record) ==
    /\ cbo_pc = "visit"
    /\ name \in classes
    /\ LET fresh == [class_couplings |->
                         [c \in DOMAIN class_couplings \cup {name} |->
                            IF c = name THEN {} ELSE class_couplings[c]],
                     self_attributes |->
                         [c \in DOMAIN self_attributes \cup {name} |->
                            IF c = name THEN <<>> ELSE self_attributes[c]]]
           st == visit_exprs(couple_all(fresh, name, bases), name, bases)
       IN  /\ class_couplings' = st.class_couplings
           /\ self_attributes' = st.self_attributes
    /\ current_class' = name
    /\ class_stack' = Append(class_stack, name)
    /\ Counted("defs")
    /\ decl' = IF record
               THEN [c \in DOMAIN decl \cup {name} |->
                       IF c = name THEN [bases |-> bases, stmts |-> {}] ELSE decl[c]]
               ELSE decl
    /\ UNCHANGED <<cbo_pc, classes, imported_names>>

\* The end of visit_ClassDef, after the class body.
LeaveClass ==
    /\ cbo_pc = "visit"
    /\ class_stack # <<>>
    /\ current_class' = None
    /\ class_stack' = SubSeq(class_stack, 1, Len(class_stack) - 1)
    /\ UNCHANGED <<cbo_pc, classes, class_couplings, imported_names, self_attributes,
                   cbo_count, decl>>

\* A statement handler run on a statement of a class body (at any depth
\* below the class statement); without a current class it only descends.
InClassBody(st, stmt, record) ==
    /\ cbo_pc = "visit"
    /\ class_stack # <<>>
    /\ cbo_count.stmts < MaxStmts
    /\ class_couplings' = st.class_couplings
    /\ self_attributes' = st.self_attributes
    /\ Counted("stmts")
    /\ Declare(record, stmt)
    /\ UNCHANGED <<cbo_pc, classes, current_class, imported_names, class_stack>>

\* if self.current_class: ... else: self.generic_visit(node)
Guarded(st) == IF current_class # None THEN st ELSE CboState

\* visit_FunctionDef: the annotations of the arguments, then of the result.
CboFunctionDef(paths, record) ==
    \E args \in {<<>>} \cup { <<p>> : p \in paths }, returns \in {<<>>} \cup { <<p>> : p \in paths } :
        InClassBody(Guarded(visit_exprs(couple_all(CboState, current_class, args \o returns),
                                        current_class, args \o returns)),
                    [kind |-> "FunctionDef", target |-> "", form |-> "", path |-> args \o returns],
                    record)

CboAssign(targets, values, record) ==
    \E target \in targets, value \in values :
        InClassBody(Guarded(visit_Assign(CboState, current_class, target, value)),
                    [kind |-> "Assign", target |-> target, form |-> value.form, path |-> value.path],
                    record)

CboAnnAssign(targets, paths, record) ==
    \E target \in targets, annotation \in paths :
        InClassBody(Guarded(visit_AnnAssign(CboState, current_class, target, annotation)),
                    [kind |-> "AnnAssign", target |-> target, form |-> "", path |-> annotation],
                    record)

\* An expression statement that is a call.
CboCall(paths, record) ==
    \E path \in paths :
        InClassBody(Guarded(visit_Call(CboState, current_class, path)),
                    [kind |-> "Call", target |-> "", form |-> "Call", path |-> path],
                    record)

\* An expression statement that is an attribute chain.
CboAttribute(paths, record) ==
    \E path \in paths :
        InClassBody(Guarded(visit_Attribute(CboState, current_class, path)),
                    [kind |-> "Attribute", target |-> "", form |-> "Ref", path |-> path],
                    record)

\* split_couplings_and_leave_only_class_names, run by analyze_cbo after the
\* traversal.
SplitCouplings ==
    /\ cbo_pc = "visit"
    /\ class_stack = <<>>
    /\ cbo_pc' = "reduced"
    /\ class_couplings' =
         [c \in DOMAIN class_couplings |->
            { get_class_name(coupling, current_class, classes) :
                coupling \in class_couplings[c] }]
    /\ UNCHANGED <<classes, current_class, imported_names, self_attributes,
                   class_stack, cbo_count, decl>>

\* analyze_cbo: the CBO value of a class.
class_cbo(c) == Cardinality(class_couplings[c])

\* ======================================================================
\* HalsteadVisitor
\* ======================================================================

\* The unit is a sequence of statements in source order as for the
\* complexity visitor: statement i lies in the body of the function at
\* statement parent (0: the module).  A statement is a function definition
\* or one operation with its operators and its operand nodes.  A Python
\* value is a record of its type and its text.

PyStr(text) == [py |-> "str", v |-> text]
PyInt(text) == [py |-> "int", v |-> text]
NoValue == [py |-> "", v |-> ""]

\* The k-th operand node of the statement on line at: its type, the value
\* of its value field, and the node object itself.
Operand(type, value, at, k) ==
    [type |-> type, value |-> value,
     self |-> [py |-> "node", v |-> ToString(at) \o "." \o ToString(k)]]

\* HalsteadVisitor.types
types == [Num |-> "n", Name |-> "id", Attribute |-> "attr", Constant |-> "value"]

\* getattr(operand, self.types.get(name, ""), operand)
new_operand(operand) ==
    IF operand.type \in DOMAIN types THEN operand.value ELSE operand.self

FunctionNames == {"f", "g"}

HNode(kind, parent, name, ops, operands) ==
    [kind |-> kind, parent |-> parent, name |-> name, ops |-> ops, operands |-> operands]

\* The operations that can be written on line at in the body of p:
\*   x + 1      -x      -call()      x and x      x += "x"      1 < y.x < x
Operations(p, at) ==
    { HNode("BinOp", p, "", <<"Add">>,
            <<Operand("Name", PyStr("x"), at, 1), Operand("Constant", PyInt("1"), at, 2)>>),
      HNode("UnaryOp", p, "", <<"USub">>, <<Operand("Name", PyStr("x"), at, 1)>>),
      HNode("UnaryOp", p, "", <<"USub">>, <<Operand("Call", NoValue, at, 1)>>),
      HNode("BoolOp", p, "", <<"And">>,
            <<Operand("Name", PyStr("x"), at, 1), Operand("Name", PyStr("x"), at, 2)>>),
      HNode("AugAssign", p, "", <<"Add">>,
            <<Operand("Name", PyStr("x"), at, 1), Operand("Constant", PyStr("x"), at, 2)>>),
      HNode("Compare", p, "", <<"Lt", "Lt">>,
            <<Operand("Constant", PyInt("1"), at, 1), Operand("Attribute", PyStr("x"), at, 2),
              Operand("Name", PyStr("x"), at, 3)>>) }

\* HalsteadVisitor.__init__
HalsteadVisitor(context) ==
    [operators_seen |-> {},
     operands_seen |-> {},
     operators |-> 0,
     operands |-> 0,
     context |-> context,
     function_visitors |-> <<>>]

distinct_operators(v) == Cardinality(v.operators_seen)
distinct_operands(v) == Cardinality(v.operands_seen)

Range(seq) == { seq[i] : i \in DOMAIN seq }

\* The tuple a decorated visit method returns; a Compare node holds its left
\* operand first, then the comparators.
results(node) ==
    CASE node.kind \in {"BinOp", "AugAssign"} -> <<1, 2, node.ops, node.operands>>
      [] node.kind = "UnaryOp" -> <<1, 1, node.ops, node.operands>>
      [] node.kind = "BoolOp" -> <<1, Len(node.operands), node.ops, node.operands>>
      [] node.kind = "Compare" ->
            <<Len(node.ops), Len(Tail(node.operands)) + 1, node.ops,
              Tail(node.operands) \o <<Head(node.operands)>> >>

\* dispatch.aux: the operands and operators of an operation have no
\* operations below them here.
dispatch(v, node) ==
    LET res == results(node)
    IN  [v EXCEPT !.operators = @ + res[1],
                  !.operands = @ + res[2],
                  !.operators_seen = @ \cup Range(res[3]),
                  !.operands_seen =
                      @ \cup { <<v.context, new_operand(res[4][i])>> : i \in DOMAIN res[4] }]

\* The statements of the body of p, in source order.
HChildSeq(t, p) == SelectSeq([i \in 1..Len(t) |-> i], LAMBDA i : t[i].parent = p)

RECURSIVE Halstead_visit(_, _, _)
RECURSIVE Halstead_function_body(_, _, _, _)

\* HalsteadVisitor.from_ast(child, context=node.name)
Halstead_from_ast(t, n, context) == Halstead_visit(t, HalsteadVisitor(context), n)

\* Adding the counts and sets of visitor to those of into.
Halstead_fold(into, sub) ==
    [into EXCEPT !.operators = @ + sub.operators,
                 !.operands = @ + sub.operands,
                 !.operators_seen = @ \cup sub.operators_seen,
                 !.operands_seen = @ \cup sub.operands_seen]

\* for child in node.body of visit_FunctionDef, over the statements cs:
\* acc holds self and func_visitor.
Halstead_function_body(t, name, cs, acc) ==
    IF cs = <<>> THEN acc
    ELSE LET sub == Halstead_from_ast(t, Head(cs), name)
         IN  Halstead_function_body(t, name, Tail(cs),
                 [self |-> Halstead_fold(acc.self, sub),
                  func_visitor |-> Halstead_fold(acc.func_visitor, sub)])

\* HalsteadVisitor.visit_FunctionDef (and visit_AsyncFunctionDef)
Halstead_visit_FunctionDef(t, v, n) ==
    LET acc == Halstead_function_body(t, t[n].name, HChildSeq(t, n),
                   [self |-> v, func_visitor |-> HalsteadVisitor(t[n].name)])
    IN  [acc.self EXCEPT !.function_visitors = Append(@, acc.func_visitor)]

\* NodeVisitor.visit: dispatch on the node's kind.
Halstead_visit(t, v, n) ==
    IF t[n].kind = "FunctionDef" THEN Halstead_visit_FunctionDef(t, v, n)
    ELSE dispatch(v, t[n])

RECURSIVE Halstead_visit_all(_, _, _)
\* generic_visit of the module: its statements in turn.
Halstead_visit_all(t, v, cs) ==
    IF cs = <<>> THEN v
    ELSE Halstead_visit_all(t, Halstead_visit(t, v, Head(cs)), Tail(cs))

\* HalsteadVisitor.from_ast on the module, context None.
Halstead_from_module(t) == Halstead_visit_all(t, HalsteadVisitor(None), HChildSeq(t, 0))

RECURSIVE HAncestors(_, _)
HAncestors(t, i) ==
    IF i = 0 \/ t[i].parent = 0 THEN {}
    ELSE {t[i].parent} \cup HAncestors(t, t[i].parent)

\* Where the next statement can be written.
HOpenBodies(t) ==
    IF t = <<>> THEN {0}
    ELSE {0} \cup HAncestors(t, Len(t))
             \cup (IF t[Len(t)].kind = "FunctionDef" THEN {Len(t)} ELSE {})

HInit ==
    /\ h_unit = <<>>
    /\ h_visitor = Halstead_from_module(<<>>)

HIdle ==
    /\ h_unit = <<>>
    /\ h_visitor = HalsteadVisitor(None)

HAnalyse(t) ==
    /\ h_unit' = t
    /\ h_visitor' = Halstead_from_module(t)

\* One more operation at the end of an open body.
AddOperation ==
    /\ Len(h_unit) < MaxHalsteadNodes
    /\ \E p \in HOpenBodies(h_unit) : \E node \in Operations(p, Len(h_unit) + 1) :
         HAnalyse(Append(h_unit, node))

\* One more function definition at the end of an open body.
AddFunction ==
    /\ Len(h_unit) < MaxHalsteadNodes
    /\ \E p \in HOpenBodies(h_unit), name \in FunctionNames :
         HAnalyse(Append(h_unit, HNode("FunctionDef", p, name, <<>>, <<>>)))

\* ======================================================================
\* Specifications
\* ======================================================================

SpecClassInit == ClInit /\ LcIdle /\ CcIdle /\ CboIdle /\ HIdle
SpecClassNext == ReadComplexity /\ UNCHANGED <<lc_vars, cc_vars, cbo_vars, h_vars>>
SpecClass == SpecClassInit /\ [][SpecClassNext]_vars

SpecLCOMInit == LcInit /\ ClIdle /\ CcIdle /\ CboIdle /\ HIdle
SpecLCOMNext ==
    \/ VisitMethod /\ UNCHANGED <<cl_vars, cc_vars, cbo_vars, h_vars>>
    \/ VisitOtherItem /\ UNCHANGED <<cl_vars, cc_vars, cbo_vars, h_vars>>
    \/ StoreLcom /\ UNCHANGED <<cl_vars, cc_vars, cbo_vars, h_vars>>
SpecLCOM == SpecLCOMInit /\ [][SpecLCOMNext]_vars

SpecCCInit == CcInit /\ ClIdle /\ LcIdle /\ CboIdle /\ HIdle
SpecCCNext ==
    \/ AddStatement /\ UNCHANGED <<cl_vars, lc_vars, cbo_vars, h_vars>>
    \/ AddClause /\ UNCHANGED <<cl_vars, lc_vars, cbo_vars, h_vars>>
    \/ AddWildcardCase /\ UNCHANGED <<cl_vars, lc_vars, cbo_vars, h_vars>>
    \/ AddElse /\ UNCHANGED <<cl_vars, lc_vars, cbo_vars, h_vars>>
    \/ AddFinally /\ UNCHANGED <<cl_vars, lc_vars, cbo_vars, h_vars>>
SpecCC == SpecCCInit /\ [][SpecCCNext]_vars

\* The CBO traversal of any unit: every handler, classes nested or not.
CboOther == <<cl_vars, lc_vars, cc_vars, h_vars>>
SpecCBOInit == CboInit /\ ClIdle /\ LcIdle /\ CcIdle /\ HIdle
SpecCBONext ==
    \/ CboImport(Imports) /\ UNCHANGED CboOther
    \/ (/\ cbo_count.defs < MaxClassDefs
        /\ \E name \in {"A", "B"}, bases \in {<<>>} \cup { <<p>> : p \in RefPaths } :
             EnterClass(name, bases, FALSE)) /\ UNCHANGED CboOther
    \/ LeaveClass /\ UNCHANGED CboOther
    \/ CboFunctionDef(AnnotationPaths, FALSE) /\ UNCHANGED CboOther
    \/ CboAssign(Attrs \cup {""}, Values, FALSE) /\ UNCHANGED CboOther
    \/ CboAnnAssign(Attrs \cup {"name", ""}, RefPaths \cup {NoName}, FALSE) /\ UNCHANGED CboOther
    \/ CboCall(RefPaths, FALSE) /\ UNCHANGED CboOther
    \/ CboAttribute(RefPaths, FALSE) /\ UNCHANGED CboOther
    \/ SplitCouplings /\ UNCHANGED CboOther
SpecCBO == SpecCBOInit /\ [][SpecCBONext]_vars

\* The CBO traversal of the units of test_cbo.py: top-level classes, each
\* declared once, with at most one base and with fields constructed from
\* classes; decl keeps what each class body holds.
UnitBases == {<<>>} \cup { <<(<<c>>)>> : c \in ClassIds } \cup { <<(<<"m", "A">>)>> }
Constructions == { [form |-> "Call", path |-> <<c>>] : c \in ClassIds }
SpecCBOUnitNext ==
    \/ (/\ class_stack = <<>>
        /\ \E name \in ClassIds \ DOMAIN decl, bases \in UnitBases :
             EnterClass(name, bases, TRUE)) /\ UNCHANGED CboOther
    \/ LeaveClass /\ UNCHANGED CboOther
    \/ CboAssign(Attrs \cup {""}, Constructions, TRUE) /\ UNCHANGED CboOther
    \/ SplitCouplings /\ UNCHANGED CboOther
SpecCBOUnit == SpecCBOInit /\ [][SpecCBOUnitNext]_vars

\* The same units with classes declared inside classes as well.
SpecCBONestedNext ==
    \/ (\E name \in ClassIds \ DOMAIN decl, bases \in UnitBases :
           EnterClass(name, bases, TRUE)) /\ UNCHANGED CboOther
    \/ LeaveClass /\ UNCHANGED CboOther
    \/ CboAssign(Attrs \cup {""}, Constructions, TRUE) /\ UNCHANGED CboOther
    \/ SplitCouplings /\ UNCHANGED CboOther
SpecCBONested == SpecCBOInit /\ [][SpecCBONestedNext]_vars

\* The Halstead analysis of any unit of functions and operations.
SpecHalsteadInit == HInit /\ ClIdle /\ LcIdle /\ CcIdle /\ CboIdle
SpecHalsteadNext ==
    \/ AddOperation /\ UNCHANGED <<cl_vars, lc_vars, cc_vars, cbo_vars>>
    \/ AddFunction /\ UNCHANGED <<cl_vars, lc_vars, cc_vars, cbo_vars>>
SpecHalstead == SpecHalsteadInit /\ [][SpecHalsteadNext]_vars

\* ======================================================================
\* Claims
\* ======================================================================

\* ---- Class.complexity

\* C6: the derived complexity of a Class record is real_complexity with zero
\* methods, real_complexity unchanged with exactly one method, and
\* floor(real_complexity / method_count) + 1 with more than one; no division
\* by the method count happens when the count is zero.
C6_ClassComplexity ==
    cl_pc = "read" =>
        LET n == Len(cl_self.methods)
            r == cl_self.real_complexity
        IN  /\ (n = 0 => cl_result = r /\ cl_divisors = {})
            /\ (n = 1 => cl_result = r)
            /\ (n > 1 => cl_result = (r \div n) + 1)
            /\ 0 \notin cl_divisors

\* A class with several methods whose count does not divide real_complexity.
C6_Witness ==
    /\ cl_pc = "read"
    /\ Len(cl_self.methods) > 1
    /\ cl_self.real_complexity % Len(cl_self.methods) # 0
    /\ cl_self.real_complexity > Len(cl_self.methods)

\* ---- LCOMVisitor

\* The field set of the method defined at position i of the class body.
FieldsAt(i) == fields_accessed(lc_body[i].accesses)

\* The class body holds exactly three methods, with three different names:
\* two reading non-empty, disjoint self-field sets and one reading none.
ThreeMethodScenario ==
    /\ Cardinality(DefPositions(lc_body)) = 3
    /\ UsedNames(lc_body) = 3
    /\ \E i, j, k \in DefPositions(lc_body) :
         /\ i # j /\ i # k /\ j # k
         /\ FieldsAt(i) # {} /\ FieldsAt(j) # {}
         /\ FieldsAt(i) \cap FieldsAt(j) = {}
         /\ FieldsAt(k) = {}

\* C4 (as stated): a class with three methods, two of which access non-empty,
\* mutually disjoint self-field sets and one of which accesses no fields, has
\* an LCOM of 2.
C4_ThreeMethodsLcomTwo ==
    (lc_pc = "done" /\ ThreeMethodScenario) => class_lcoms["MyClass"] = 2

\* C4 (amended): such a class, its three methods named differently, has an
\* LCOM of 3: all three pairs are non-cohesive and none is cohesive.
C4_ThreeMethodsLcomThree ==
    (lc_pc = "done" /\ ThreeMethodScenario) => class_lcoms["MyClass"] = 3

C4_Witness == lc_pc = "done" /\ ThreeMethodScenario

\* Unordered pairs of methods of the class body, as positions.
MethodPairs ==
    { p \in DefPositions(lc_body) \X DefPositions(lc_body) : p[1] < p[2] }

\* Pairs in which a method reads no field, or both read fields and share none.
PairsP ==
    Cardinality({ p \in MethodPairs :
        \/ FieldsAt(p[1]) = {}
        \/ FieldsAt(p[2]) = {}
        \/ FieldsAt(p[1]) \cap FieldsAt(p[2]) = {} })

\* Pairs in which both methods read fields and share at least one.
PairsQ ==
    Cardinality({ p \in MethodPairs : FieldsAt(p[1]) \cap FieldsAt(p[2]) # {} })

\* C5: for every class the LCOM value equals max(P - Q, 0) over all unordered
\* pairs of methods defined directly in the class body, each method with the
\* fields it accesses itself; it is never negative, and 0 with fewer than two
\* methods.
C5_LcomIsPMinusQ ==
    lc_pc = "done" =>
        /\ class_lcoms["MyClass"] = Max2(PairsP - PairsQ, 0)
        /\ class_lcoms["MyClass"] >= 0
        /\ (Cardinality(DefPositions(lc_body)) < 2 => class_lcoms["MyClass"] = 0)

\* ---- ComplexityVisitor

RECURSIVE FuncRecs(_)
\* The Function records of a list, with their closures at every depth.
FuncRecs(fs) ==
    UNION { {fs[i]} \cup FuncRecs(fs[i].closures) : i \in DOMAIN fs }

RECURSIVE ClassFuncRecs(_)
\* The Function records held by a list of Class records.
ClassFuncRecs(cs) ==
    UNION { FuncRecs(cs[i].methods) \cup ClassFuncRecs(cs[i].inner_classes) :
              i \in DOMAIN cs }

\* Every Function record the analysis of the unit returns.
AllFunctionRecords == FuncRecs(visitor.functions) \cup ClassFuncRecs(visitor.classes)

\* The record visit_FunctionDef builds for the function at statement f, and
\* the one visit_ClassDef builds for the class at statement c.
FunctionOf(t, f) ==
    visit_FunctionDef(t, ComplexityVisitor(FALSE, 0, FALSE, no_assert), f).functions[1]

ClassOf(t, c) ==
    visit_ClassDef(t, ComplexityVisitor(FALSE, 0, FALSE, no_assert), c).classes[1]

\* The statements below statement f, at any depth.
Below(t, f) == { i \in 1..Len(t) : f \in Ancestors(t, i) }

\* The body of f holds no decision-point construct at all.
NoDecisionConstruct(t, f) ==
    \A i \in Below(t, f) : t[i].kind \in {"Expr", "FunctionDef", "ClassDef"}

\* The decision points the counting rules give one statement.
NodePoints(node) ==
    IF node.kind = "Assert" THEN BoolInt(~no_assert) ELSE decision_points(node)

RECURSIVE SumPoints(_, _)
SumPoints(t, S) ==
    IF S = {} THEN 0
    ELSE LET x == CHOOSE y \in S : TRUE
         IN  NodePoints(t[x]) + SumPoints(t, S \ {x})

\* The nearest function or class definition enclosing statement i (0: none).
EnclosingDef(t, i) ==
    LET defs == { a \in Ancestors(t, i) : t[a].kind \in DefinitionKinds }
    IN  IF defs = {} THEN 0 ELSE SetMax(defs)

\* The unit without its statement k, a statement with nothing below it.
RemoveNode(t, k) ==
    [i \in 1..(Len(t) - 1) |->
        LET old == IF i < k THEN t[i] ELSE t[i + 1]
        IN  [old EXCEPT !.parent = IF @ > k THEN @ - 1 ELSE @]]

\* The units that are the given one less one decision-point construct: a
\* conditional, loop, boolean operation, try, comprehension, match or
\* assertion removed, or one operand, handler, filter, case or else clause.
\* at is the statement concerned, removed tells whether it is gone.
Reductions(t) ==
    { [tree |-> RemoveNode(t, k), at |-> k, removed |-> TRUE] :
        k \in { i \in 1..Len(t) :
                  /\ t[i].kind \notin {"Expr", "FunctionDef", "ClassDef"}
                  /\ Below(t, i) = {} } }
    \cup { [tree |-> [t EXCEPT ![i].n = @ - 1], at |-> i, removed |-> FALSE] :
             i \in { j \in 1..Len(t) :
                       \/ t[j].kind = "BoolOp" /\ t[j].n > 2
                       \/ t[j].kind = "Try" /\ (t[j].n > 1 \/ (t[j].n = 1 /\ t[j].finalbody /\ ~t[j].orelse))
                       \/ t[j].kind = "Match" /\ t[j].n > 1
                       \/ t[j].kind \in {"comprehension", "Assert"} /\ t[j].n > 0 } }
    \cup { [tree |-> [t EXCEPT ![i].n = @ - 1, ![i].wildcard = FALSE],
            at |-> i, removed |-> FALSE] :
             i \in { j \in 1..Len(t) :
                       t[j].kind = "Match" /\ t[j].n > 1 /\ t[j].wildcard } }
    \cup { [tree |-> [t EXCEPT ![i].orelse = FALSE], at |-> i, removed |-> FALSE] :
             i \in { j \in 1..Len(t) :
                       t[j].kind \in {"Loop", "Try"} /\ t[j].orelse } }

\* Statement j of a reduced unit, as a statement of the unit it came from.
Origin(red, j) == IF red.removed /\ j >= red.at THEN j + 1 ELSE j

\* The decision points the reduction took away.
Delta(t, red) ==
    NodePoints(t[red.at])
        - (IF red.removed THEN 0 ELSE NodePoints(red.tree[red.at]))

\* C7 (as stated): a function whose body contains no decision-point construct
\* has a Function record whose complexity is the baseline of the visitor that
\* analysed it: 1 in offset mode (off = true), 0 otherwise.
C7_BaselineFollowsOffset ==
    \A i \in DOMAIN visitor.functions :
        NoDecisionConstruct(unit, visitor.functions[i].name)
            => visitor.functions[i].complexity = (IF visitor.off THEN 1 ELSE 0)

\* C7 (amended): a function whose body contains no decision-point construct
\* has a Function record of complexity exactly 1, whether the visitor that
\* analysed it is in offset mode or not.
C7_BaselineIsOne ==
    \A r \in AllFunctionRecords :
        NoDecisionConstruct(unit, r.name) => r.complexity = 1

\* A function without decision points analysed by a visitor with off = false.
C7_Witness ==
    /\ ~visitor.off
    /\ \E i \in DOMAIN visitor.functions :
         /\ NoDecisionConstruct(unit, visitor.functions[i].name)
         /\ Below(unit, visitor.functions[i].name) # {}

\* C8: adding one more decision-point construct anywhere in a body never
\* lowers the complexity of a function, the real_complexity of a class or the
\* total_complexity of the visitor: each is at least what it is for the unit
\* without that construct.
C8_Monotone ==
    \A red \in Reductions(unit) :
        /\ total_complexity(from_ast(red.tree, off, no_assert))
               <= total_complexity(visitor)
        /\ \A j \in 1..Len(red.tree) :
             /\ red.tree[j].kind = "FunctionDef" =>
                    FunctionOf(red.tree, j).complexity
                        <= FunctionOf(unit, Origin(red, j)).complexity
             /\ red.tree[j].kind = "ClassDef" =>
                    ClassOf(red.tree, j).real_complexity
                        <= ClassOf(unit, Origin(red, j)).real_complexity

\* A construct in a method whose removal lowers the method's complexity, the
\* class's real_complexity and the total.
C8_Witness ==
    \E red \in Reductions(unit) : \E c, f \in 1..Len(red.tree) :
        /\ red.tree[c].kind = "ClassDef"
        /\ red.tree[f].kind = "FunctionDef"
        /\ red.tree[f].parent = c
        /\ FunctionOf(red.tree, f).complexity < FunctionOf(unit, Origin(red, f)).complexity
        /\ ClassOf(red.tree, c).real_complexity < ClassOf(unit, Origin(red, c)).real_complexity
        /\ total_complexity(from_ast(red.tree, off, no_assert)) < total_complexity(visitor)

\* The statement lies in a function G nested in a top-level function F.
InClosureOfTopLevelFunction(t, e) ==
    LET G == EnclosingDef(t, e)
        F == IF G = 0 THEN 0 ELSE EnclosingDef(t, G)
    IN  /\ G # 0 /\ t[G].kind = "FunctionDef"
        /\ F # 0 /\ t[F].kind = "FunctionDef"
        /\ t[F].parent = 0

\* C9: the decision points of a function G nested in a top-level function F
\* are part of the top-level visitor's total_complexity exactly once: the
\* total is larger by d than for the same unit with d decision points less
\* in G.
C9_ClosurePointsInTotal ==
    \A red \in Reductions(unit) :
        InClosureOfTopLevelFunction(unit, red.at) =>
            total_complexity(visitor)
                = total_complexity(from_ast(red.tree, off, no_assert)) + Delta(unit, red)

\* The functions defined in the body of f directly or inside statements that
\* are not definitions, in source order.
NestedFunctions(t, f) ==
    SelectSeq([i \in 1..Len(t) |-> i],
              LAMBDA i : t[i].kind = "FunctionDef" /\ EnclosingDef(t, i) = f)

ClosuresInOrder(r) ==
    [i \in DOMAIN r.closures |-> r.closures[i].name] = NestedFunctions(unit, r.name)

\* The statements of f's body outside every nested function definition.
OutsideFunctions(t, f) ==
    { i \in Below(t, f) :
        \A a \in Ancestors(t, i) : (f \in Ancestors(t, a)) => t[a].kind # "FunctionDef" }

\* The statements of f's body outside every nested function or class definition.
OutsideDefinitions(t, f) == { i \in Below(t, f) : EnclosingDef(t, i) = f }

\* Changing the decision points inside a closure leaves the complexity of
\* every function enclosing the closure unchanged.
ClosureFrame ==
    \A red \in Reductions(unit) : \A j \in 1..Len(red.tree) :
        ( /\ red.tree[j].kind = "FunctionDef"
          /\ \E g \in Ancestors(unit, red.at) :
                 /\ unit[g].kind = "FunctionDef"
                 /\ Origin(red, j) \in Ancestors(unit, g) )
        => FunctionOf(red.tree, j).complexity = FunctionOf(unit, Origin(red, j)).complexity

\* C10 (as stated): the functions defined in F's body appear in F.closures in
\* source order, and F.complexity is 1 plus the decision points of F's body
\* that lie outside every nested function definition.
C10_OutsideNestedFunctions ==
    \A r \in AllFunctionRecords :
        /\ ClosuresInOrder(r)
        /\ r.complexity = 1 + SumPoints(unit, OutsideFunctions(unit, r.name))

\* C10 (amended): the functions defined in F's body appear in F.closures in
\* source order, and F.complexity is 1 plus the decision points of F's body
\* that lie outside every nested function or class definition; changing the
\* decision points inside a closure leaves F.complexity unchanged.
C10_OutsideNestedDefinitions ==
    /\ \A r \in AllFunctionRecords :
         /\ ClosuresInOrder(r)
         /\ r.complexity = 1 + SumPoints(unit, OutsideDefinitions(unit, r.name))
    /\ ClosureFrame

\* A function without decision points of its own whose closure holds one.
C10_Witness ==
    \E r \in AllFunctionRecords :
        /\ Len(r.closures) = 1
        /\ r.closures[1].complexity > 1
        /\ r.complexity = 1

\* C11: every Function record has endline >= lineno and endline >= the
\* endline of each of its closures.
C11_EndlineCoversClosures ==
    \A r \in AllFunctionRecords :
        /\ r.endline >= r.lineno
        /\ \A i \in DOMAIN r.closures : r.endline >= r.closures[i].endline

RECURSIVE ClassRecs(_)
\* The Class records of a list, with their inner classes at every depth.
ClassRecs(cs) ==
    UNION { {cs[i]} \cup ClassRecs(cs[i].inner_classes) : i \in DOMAIN cs }

\* Every Class record the analysis of the unit returns.
AllClassRecords == ClassRecs(visitor.classes)

\* C12: every Class record has real_complexity >= the number of its methods:
\* real_complexity is 1 plus the decision points of the class body outside
\* every nested definition plus the complexity of every method, each of
\* which is at least 1.
C12_RealComplexity ==
    \A r \in AllClassRecords :
        /\ r.real_complexity >= Len(r.methods)
        /\ r.real_complexity
             = 1 + SumPoints(unit, OutsideDefinitions(unit, r.name))
                 + SumField(r.methods, "complexity")
        /\ \A i \in DOMAIN r.methods : r.methods[i].complexity >= 1

\* A class with a method that holds a decision point.
C12_Witness ==
    \E r \in AllClassRecords :
        /\ Len(r.methods) >= 1
        /\ r.methods[1].complexity > 1
        /\ r.real_complexity > Len(r.methods)

\* The count statement i adds to: the complexity of the function or the
\* real_complexity of the class whose body it lies in, or the visitor's own
\* complexity for a statement outside every definition.
ScopeComplexity(t, i) ==
    LET d == EnclosingDef(t, i)
    IN  IF d = 0 THEN from_ast(t, off, no_assert).complexity
        ELSE IF t[d].kind = "FunctionDef" THEN FunctionOf(t, d).complexity
        ELSE ClassOf(t, d).real_complexity

\* The unit with statement i replaced by a statement without decision points.
Plain(t, i) == [t EXCEPT ![i] = Node("Expr", t[i].parent, 0, FALSE, FALSE, FALSE)]

\* What statement i itself adds to the count.
Contribution(t, i) == ScopeComplexity(t, i) - ScopeComplexity(Plain(t, i), i)

\* C14: a try statement adds its number of handlers, plus 1 when it has an
\* else clause or a finally clause.
C14_TryElseOrFinally ==
    \A i \in 1..Len(unit) :
        unit[i].kind = "Try" =>
            Contribution(unit, i)
                = unit[i].n + BoolInt(unit[i].orelse \/ unit[i].finalbody)

\* C15: an assertion, at any depth, adds 1 when assertions are counted and 0
\* when they are excluded, whatever its condition holds.
C15_AssertCounts ==
    \A i \in 1..Len(unit) :
        unit[i].kind = "Assert" =>
            Contribution(unit, i) = (IF no_assert THEN 0 ELSE 1)

\* An assertion in a function, its condition a boolean operation, with
\* assertions excluded.
C15_Witness ==
    /\ no_assert
    /\ \E i \in 1..Len(unit) :
         /\ unit[i].kind = "Assert"
         /\ unit[i].n > 0
         /\ EnclosingDef(unit, i) # 0
         /\ unit[EnclosingDef(unit, i)].kind = "FunctionDef"

\* ---- HalsteadVisitor

\* The operand occurrences of the unit: operand k of the operation at
\* statement i.
Occurrences ==
    { <<i, k>> : i \in 1..Len(h_unit), k \in 1..3 } \cap
    { o \in (1..Len(h_unit)) \X (1..3) :
        h_unit[o[1]].kind # "FunctionDef" /\ o[2] <= Len(h_unit[o[1]].operands) }

\* The function an occurrence lies in (0: none) with its resolved value.
UseOf(o) == <<h_unit[o[1]].parent, new_operand(h_unit[o[1]].operands[o[2]])>>

\* C13: the distinct operands of the visitor are the different pairs of the
\* function an operand is used in and its resolved value, so that a value
\* used in two functions counts twice and a value used twice in one function
\* once; the operand count is the number of occurrences; and no visitor,
\* the functions' visitors included, has more distinct operands than
\* operands or more distinct operators than operators.
C13_OperandsPerFunction ==
    /\ distinct_operands(h_visitor) = Cardinality({ UseOf(o) : o \in Occurrences })
    /\ h_visitor.operands = Cardinality(Occurrences)
    /\ \A v \in {h_visitor} \cup Range(h_visitor.function_visitors) :
         /\ distinct_operands(v) <= v.operands
         /\ distinct_operators(v) <= v.operators

\* ----------------------------------------------------------------------
\* CBO claims
\* ----------------------------------------------------------------------

Analysed == cbo_pc = "reduced"

\* C1: after the traversal and the final reduction, no class's coupling set
\* contains the class's own name.
C1_NoSelfCoupling ==
    Analysed => \A c \in DOMAIN class_couplings : <<c>> \notin class_couplings[c]

\* The names a class body refers to: its bases and its constructor calls.
Referenced(c) ==
    { decl[c].bases[i] : i \in 1..Len(decl[c].bases) } \cup { s.path : s \in decl[c].stmts }

\* A name with a component, other than the class's own name, that is a
\* standard type or a collected class.
ClassLike(name, c) ==
    \E i \in 1..Len(name) : name[i] # c /\ name[i] \in standard_lib_classes \cup classes

InheritsFrom(base, derived) ==
    /\ base # derived
    /\ DOMAIN decl = {base, derived}
    /\ decl[base] = NoDecl
    /\ decl[derived] = [bases |-> <<(<<base>>)>>, stmts |-> {}]

\* C2: a unit of Base and Derived(Base) without other references yields the
\* counts 0 and 1 with Derived coupled to exactly Base; and during the
\* traversal every class-like base of a class is in that class's set while
\* every class's set holds only what its own body refers to.
C2_InheritsFrom ==
    /\ Analysed =>
         \A base \in DOMAIN decl, derived \in DOMAIN decl :
            InheritsFrom(base, derived) =>
                /\ class_cbo(base) = 0
                /\ class_cbo(derived) = 1
                /\ class_couplings[derived] = {<<base>>}
    /\ cbo_pc = "visit" =>
         \A c \in DOMAIN decl :
            /\ \A i \in 1..Len(decl[c].bases) :
                 ClassLike(decl[c].bases[i], c) => decl[c].bases[i] \in class_couplings[c]
            /\ class_couplings[c] = { name \in Referenced(c) : ClassLike(name, c) }

\* Derived(Base) has been analysed.
C2_Witness ==
    /\ Analysed
    /\ InheritsFrom("A", "B")
    /\ class_couplings["B"] = {<<"A">>}

ClassField(c) == [kind |-> "Assign", target |-> "", form |-> "Call", path |-> <<c>>]
SelfField(c) == [kind |-> "Assign", target |-> "b", form |-> "Call", path |-> <<c>>]

DefinedInTermsOf(x, y, z) ==
    /\ x # y /\ y # z /\ x # z
    /\ DOMAIN decl = {x, y, z}
    /\ decl[x] = NoDecl
    /\ decl[y] = [bases |-> <<>>, stmts |-> {ClassField(x)}]
    /\ decl[z] = [bases |-> <<>>, stmts |-> {SelfField(y)}]

\* C3: with y holding a class-level field constructed from x and z storing
\* an instance of y on itself, the counts are x: 0, y: 1, z: 1, and z is
\* coupled to exactly y, not to x.
C3_DirectNotTransitive ==
    Analysed =>
        \A x \in DOMAIN decl, y \in DOMAIN decl, z \in DOMAIN decl :
            DefinedInTermsOf(x, y, z) =>
                /\ class_cbo(x) = 0
                /\ class_cbo(y) = 1
                /\ class_cbo(z) = 1
                /\ class_couplings[z] = {<<y>>}
                /\ <<x>> \notin class_couplings[z]

\* A, B with a field A(), C with self.b = B() have been analysed.
C3_Witness ==
    /\ Analysed
    /\ DefinedInTermsOf("A", "B", "C")
    /\ class_cbo("C") = 1

\* C16: while a statement inside a class body is being visited the cursor
\* is the innermost enclosing class, and the cursor is empty only outside
\* all class bodies.
C16_CursorIsInnermostClass ==
    cbo_pc = "visit" =>
        /\ class_stack # <<>> => current_class = class_stack[Len(class_stack)]
        /\ current_class = None => class_stack = <<>>

\* C17: the collected class names are those of the first phase; every
\* reference of a class X to a collected class Y other than X is a coupling
\* of X in the final report, wherever Y is declared; and the final coupling
\* set of every class is given by what its own body refers to, so that the
\* order of the class declarations does not matter.
C17_OrderIndependent ==
    /\ classes = ClassIds
    /\ Analysed =>
         \A x \in DOMAIN decl :
            /\ \A s \in decl[x].stmts :
                 (s.path[1] \in classes /\ s.path[1] # x) => s.path \in class_couplings[x]
            /\ class_couplings[x]
                 = { get_class_name(name, None, classes) :
                       name \in { r \in Referenced(x) : ClassLike(r, x) } }

====
